---- MODULE Spec2Model ----
(***************************************************************************)
(* Model of contracts/game-of-life/src/lib.rs: the Soroban contract        *)
(* GameOfLife::next_generation, which maps a textual board (rows of bytes  *)
(* separated by newline bytes, space = dead, any other byte = a live cell  *)
(* of that type) to the next generation of a multi-colony Game of Life.    *)
(*                                                                         *)
(* Bytes are integers 0..255.  A String / byte slice is a sequence of      *)
(* bytes.  A call is one atomic action; a Rust panic (an index outside a   *)
(* fixed-size buffer) traps the call and is the outcome "panicked".        *)
(***************************************************************************)
EXTENDS Integers, Sequences, FiniteSets, TLC

VARIABLES board, origin, pc, result, passed, width, height, prng_log, dom_calls, gen

vars == <<board, origin, pc, result, passed, width, height, prng_log, dom_calls, gen>>

(***************************************************************************)
(* Program constants                                                       *)
(***************************************************************************)
MAX_BOARD_SIZE == 100000

SPACE == 32

NEWLINE == 10

FALLBACK == 79

ZERO == 0

(* Type bytes used by the repository's tests: 'X', 'O', 'Y'. *)
TYPE_X == 88

TYPE_O == 79

TYPE_Y == 89

(***************************************************************************)
(* Bounds of the model                                                     *)
(***************************************************************************)
MaxLen == 4

MaxWidth == 3

TypedWidth == 2

MaxGen == 2

BlinkW == 6

BlinkH == 4

LongRow == 400

LongRows == 300

SquareSide == 316

(***************************************************************************)
(* The random source: env.prng().gen_range(0..n), line 98.  The generator  *)
(* belongs to the host; a draw may return any value of the half-open range.*)
(***************************************************************************)
gen_range(n) == 0..(n - 1)

(***************************************************************************)
(* Parsing: lines 123-145.  DimStep is the body of the loop over the input *)
(* bytes; ScanDims runs it over input[lo..hi] in order (the range is cut   *)
(* in halves, the left half is finished before the right one starts).     *)
(***************************************************************************)
DimStep(s, b) ==
    IF b = NEWLINE
    THEN [width         |-> IF s.width = 0 THEN s.current_width ELSE s.width,
          height        |-> s.height + 1,
          current_width |-> 0]
    ELSE [s EXCEPT !.current_width = @ + 1]

RECURSIVE ScanDims(_, _, _, _)
ScanDims(input, lo, hi, s) ==
    IF lo > hi THEN s
    ELSE IF lo = hi THEN DimStep(s, input[lo])
    ELSE LET mid  == (lo + hi) \div 2
             left == ScanDims(input, lo, mid, s)
         IN  IF left.height >= 0 THEN ScanDims(input, mid + 1, hi, left) ELSE left

ParseDimensions(input) ==
    LET s == ScanDims(input, 1, Len(input),
                      [width |-> 0, height |-> 0, current_width |-> 0])
    IN  IF s.current_width > 0
        THEN [width  |-> IF s.width = 0 THEN s.current_width ELSE s.width,
              height |-> s.height + 1]
        ELSE [width |-> s.width, height |-> s.height]

(***************************************************************************)
(* The flat grid: lines 151-160.  The buffer is [0u8; MAX_BOARD_SIZE]; the *)
(* non-newline bytes of the input fill its first slots in order, every     *)
(* other slot keeps the byte 0.  BuildGrid is the filled prefix and GridAt *)
(* the read grid[i] of a slot i < MAX_BOARD_SIZE.                          *)
(***************************************************************************)
BuildGrid(input) == SelectSeq(input, LAMBDA b : b # NEWLINE)

GridAt(grid, i) == IF i < Len(grid) THEN grid[i + 1] ELSE ZERO

(***************************************************************************)
(* get_neighbor_info: lines 10-42.  k enumerates the nine (dx, dy) pairs   *)
(* with dy outer and dx inner, both ascending from -1 to 1.                *)
(***************************************************************************)
RECURSIVE NeighborScan(_, _, _, _, _, _, _)
NeighborScan(grid, x, y, w, h, k, types) ==
    IF k > 8 THEN types
    ELSE LET dy == (k \div 3) - 1
             dx == (k % 3) - 1
             nx == x + dx
             ny == y + dy
         IN  IF dx = 0 /\ dy = 0
             THEN NeighborScan(grid, x, y, w, h, k + 1, types)
             ELSE IF nx >= 0 /\ nx < w /\ ny >= 0 /\ ny < h
                     /\ GridAt(grid, ny * w + nx) # SPACE
                  THEN NeighborScan(grid, x, y, w, h, k + 1,
                                    Append(types, GridAt(grid, ny * w + nx)))
                  ELSE NeighborScan(grid, x, y, w, h, k + 1, types)

get_neighbor_info(grid, x, y, w, h) ==
    LET types == NeighborScan(grid, x, y, w, h, 0, <<>>)
    IN  [count |-> Len(types), types |-> types, type_count |-> Len(types)]

(***************************************************************************)
(* get_dominant_type: lines 46-100.  counts is the tally in first-seen     *)
(* order, a sequence of <<type, occurrences>>.  The result records whether *)
(* the random source was consulted and with which range.                   *)
(***************************************************************************)
RECURSIVE FindType(_, _, _)
FindType(counts, t, j) ==
    IF j > Len(counts) THEN 0
    ELSE IF counts[j][1] = t THEN j
    ELSE FindType(counts, t, j + 1)

RECURSIVE Tally(_, _, _, _)
Tally(types, type_count, i, counts) ==
    IF i > type_count THEN counts
    ELSE LET t == types[i]
             j == FindType(counts, t, 1)
         IN  IF j > 0
             THEN Tally(types, type_count, i + 1,
                        [counts EXCEPT ![j] = <<t, counts[j][2] + 1>>])
             ELSE Tally(types, type_count, i + 1, Append(counts, <<t, 1>>))

(* Mutant: the maximum is not searched for, the first tally entry is taken. *)
MaxCountFirstSeen(counts, i, max_count) == counts[1][2]

RECURSIVE MaxCount(_, _, _)
MaxCount(counts, i, max_count) ==
    IF i > Len(counts) THEN max_count
    ELSE MaxCount(counts, i + 1,
                  IF counts[i][2] > max_count THEN counts[i][2] ELSE max_count)

RECURSIVE Winners(_, _, _, _)
Winners(counts, max_count, i, winners) ==
    IF i > Len(counts) THEN winners
    ELSE Winners(counts, max_count, i + 1,
                 IF counts[i][2] = max_count
                 THEN Append(winners, counts[i][1]) ELSE winners)

(* Mutant: the neighbour types are ignored, a birth always gets the default  *)
(* live marker.                                                             *)
DominantAlwaysDefault(types, type_count) ==
    {[type |-> FALLBACK, range |-> 0, index |-> 0]}

(* Mutant: with more than one neighbour the type of a randomly drawn        *)
(* neighbour is taken instead of the dominant one.                          *)
DominantRandomNeighbour(types, type_count) ==
    IF type_count = 0 THEN {[type |-> FALLBACK, range |-> 0, index |-> 0]}
    ELSE IF type_count = 1 THEN {[type |-> types[1], range |-> 0, index |-> 0]}
    ELSE {[type |-> types[index + 1], range |-> type_count, index |-> index]
          : index \in gen_range(type_count)}

get_dominant_type(types, type_count) ==
    IF type_count = 0 THEN {[type |-> FALLBACK, range |-> 0, index |-> 0]}
    ELSE IF type_count = 1 THEN {[type |-> types[1], range |-> 0, index |-> 0]}
    ELSE LET counts    == Tally(types, type_count, 1, <<>>)
             max_count == MaxCount(counts, 1, 0)
             winners   == Winners(counts, max_count, 1, <<>>)
         IN  IF Len(winners) = 1
             THEN {[type |-> winners[1], range |-> 0, index |-> 0]}
             ELSE {[type  |-> winners[index + 1],
                    range |-> Len(winners),
                    index |-> index] : index \in gen_range(Len(winners))}

(***************************************************************************)
(* The transition of one cell: the body of the loop over x, lines 170-193. *)
(* acc is one possible run so far: out, the bytes pushed to result; calls, *)
(* the calls of get_dominant_type (cell, type_count); log, the draws made  *)
(* (cell, range, value drawn).  The result is the set of runs after the    *)
(* cell, one per value the random source may return.                       *)
(***************************************************************************)
(* Mutant: the upper limit of survival is missing. *)
NextAliveNoOvercrowding(cell_alive, neighbors) ==
    IF cell_alive THEN neighbors >= 2 ELSE neighbors = 3

NextAlive(cell_alive, neighbors) ==
    IF cell_alive THEN neighbors = 2 \/ neighbors = 3 ELSE neighbors = 3

(* Mutant: a survivor is re-typed by its neighbours like a birth. *)
CellStepRetypesSurvivor(grid, w, h, x, y, acc) ==
    LET current_char == GridAt(grid, y * w + x)
        cell_alive   == current_char # SPACE
        info         == get_neighbor_info(grid, x, y, w, h)
    IN  IF NextAlive(cell_alive, info.count)
        THEN {[out   |-> Append(acc.out, d.type),
               calls |-> Append(acc.calls, [x |-> x, y |-> y,
                                            type_count |-> info.type_count]),
               log   |-> IF d.range = 0 THEN acc.log
                         ELSE Append(acc.log, [x |-> x, y |-> y,
                                               range |-> d.range,
                                               index |-> d.index])]
              : d \in get_dominant_type(info.types, info.type_count)}
        ELSE {[acc EXCEPT !.out = Append(@, SPACE)]}

CellStep(grid, w, h, x, y, acc) ==
    LET current_char == GridAt(grid, y * w + x)
        cell_alive   == current_char # SPACE
        info         == get_neighbor_info(grid, x, y, w, h)
    IN  IF NextAlive(cell_alive, info.count)
        THEN IF cell_alive
             THEN {[acc EXCEPT !.out = Append(@, current_char)]}
             ELSE {[out   |-> Append(acc.out, d.type),
                    calls |-> Append(acc.calls, [x |-> x, y |-> y,
                                                 type_count |-> info.type_count]),
                    log   |-> IF d.range = 0 THEN acc.log
                            ELSE Append(acc.log, [x |-> x, y |-> y,
                                                  range |-> d.range,
                                                  index |-> d.index])]
                   : d \in get_dominant_type(info.types, info.type_count)}
        ELSE {[acc EXCEPT !.out = Append(@, SPACE)]}

(* The loops over y and x, lines 165-195. *)
RECURSIVE ColLoop(_, _, _, _, _, _)
ColLoop(grid, w, h, y, x, accs) ==
    IF x >= w THEN accs
    ELSE ColLoop(grid, w, h, y, x + 1,
                 UNION {CellStep(grid, w, h, x, y, acc) : acc \in accs})

RECURSIVE RowLoop(_, _, _, _, _)
RowLoop(grid, w, h, y, accs) ==
    IF y >= h THEN accs
    ELSE LET started == IF y > 0
                        THEN {[acc EXCEPT !.out = Append(@, NEWLINE)] : acc \in accs}
                        ELSE accs
         IN  RowLoop(grid, w, h, y + 1, ColLoop(grid, w, h, y, 0, started))

(***************************************************************************)
(* Bounds checks of the fixed-size buffers.  Every index into grid (lines  *)
(* 31 and 170) is y * width + x for a cell of [0,width) x [0,height); the  *)
(* final copy (lines 198-200) slices result_buffer[..result_len], where    *)
(* result_len is one byte per cell and one newline per row after the first.*)
(* An index or slice end beyond MAX_BOARD_SIZE panics.                     *)
(***************************************************************************)
GridIndexInBounds(w, h) ==
    \A y \in 0..(h - 1), x \in 0..(w - 1) : y * w + x < MAX_BOARD_SIZE

ResultLen(w, h) == w * h + (h - 1)

ResultFits(w, h) == ResultLen(w, h) <= MAX_BOARD_SIZE

(***************************************************************************)
(* next_generation: lines 112-202.  The set of possible outcomes of one    *)
(* call: status "returned" with the String returned, or "panicked".        *)
(***************************************************************************)
(* The two pass-through tests, lines 114 and 147. *)
LengthRejected(len) == len = 0 \/ len > MAX_BOARD_SIZE

(* Mutant: only a board with neither width nor height is passed through. *)
DegenerateOnlyIfBoth(w, h) == w = 0 /\ h = 0

DegenerateDims(w, h) == w = 0 \/ h = 0

PassThrough(input, w, h) ==
    [status |-> "returned", out |-> input, passed |-> TRUE,
     width |-> w, height |-> h, log |-> <<>>, calls |-> <<>>]

Panicked(w, h) ==
    [status |-> "panicked", out |-> <<>>, passed |-> FALSE,
     width |-> w, height |-> h, log |-> <<>>, calls |-> <<>>]

next_generation(input) ==
    LET len == Len(input)
    IN  IF LengthRejected(len) THEN {PassThrough(input, 0, 0)}
        ELSE LET d == ParseDimensions(input)
                 w == d.width
                 h == d.height
             IN  IF DegenerateDims(w, h) THEN {PassThrough(input, w, h)}
                 ELSE IF ~GridIndexInBounds(w, h) \/ ~ResultFits(w, h)
                      THEN {Panicked(w, h)}
                      ELSE {[status |-> "returned", out |-> acc.out,
                             passed |-> FALSE, width |-> w, height |-> h,
                             log |-> acc.log, calls |-> acc.calls]
                            : acc \in RowLoop(BuildGrid(input), w, h, 0,
                                              {[out |-> <<>>, calls |-> <<>>,
                                                log |-> <<>>]})}

(***************************************************************************)
(* Inputs                                                                  *)
(***************************************************************************)
Alphabet == {SPACE, NEWLINE, TYPE_X, TYPE_O, TYPE_Y}

Palette == {SPACE, TYPE_X, TYPE_O, TYPE_Y}

(* The board of h rows of w cells, cell[<<x, y>>] at column x of row y. *)
Rect(w, h, cell) ==
    [i \in 1..(h * (w + 1) - 1) |->
        IF i % (w + 1) = 0 THEN NEWLINE
        ELSE cell[<<(i - 1) % (w + 1), (i - 1) \div (w + 1)>>]]

Coords(w, h) == (0..(w - 1)) \X (0..(h - 1))

(* Every byte string of at most MaxLen bytes: ragged rows, empty rows,     *)
(* leading and trailing newlines included.                                 *)
SmallBoards == UNION {[1..n -> Alphabet] : n \in 0..MaxLen}

(* Every two-row board of up to TypedWidth columns over three types. *)
TypedBoards ==
    UNION {{Rect(w, 2, f) : f \in [Coords(w, 2) -> Palette]} : w \in 1..TypedWidth}

(* Every three-row single-colony board of up to MaxWidth columns. *)
ColonyBoards ==
    UNION {{Rect(w, 3, f) : f \in [Coords(w, 3) -> {SPACE, TYPE_O}]} : w \in 1..MaxWidth}

(* A horizontal blinker of type t centred on (cx, cy), dead elsewhere, and *)
(* the vertical one on the same centre.                                    *)
HBlinker(w, h, cx, cy, t) ==
    Rect(w, h, [p \in Coords(w, h) |->
                   IF p[2] = cy /\ p[1] >= cx - 1 /\ p[1] <= cx + 1 THEN t ELSE SPACE])

VBlinker(w, h, cx, cy, t) ==
    Rect(w, h, [p \in Coords(w, h) |->
                   IF p[1] = cx /\ p[2] >= cy - 1 /\ p[2] <= cy + 1 THEN t ELSE SPACE])

(* The placements with a dead row above and below and a dead column left   *)
(* and right of the three cells.                                            *)
BlinkerParams ==
    {q \in (5..BlinkW) \X (3..BlinkH) \X (2..(BlinkW - 3)) \X (1..(BlinkH - 2))
           \X {TYPE_X, TYPE_O, TYPE_Y} :
        q[3] <= q[1] - 3 /\ q[4] <= q[2] - 2}

BlinkerBoards == {HBlinker(q[1], q[2], q[3], q[4], q[5]) : q \in BlinkerParams}

(* Boards of the repository's tests with more than one type, and a board   *)
(* with two contested births and a birth with a clear majority.            *)
ClearWinnerBoard ==
    Rect(3, 4, [p \in Coords(3, 4) |->
                   IF p \in {<<1, 1>>, <<0, 2>>} THEN TYPE_X
                   ELSE IF p = <<2, 2>> THEN TYPE_O ELSE SPACE])

MixedBlockBoard ==
    Rect(4, 4, [p \in Coords(4, 4) |->
                   IF p \in {<<1, 1>>, <<2, 2>>} THEN TYPE_X
                   ELSE IF p \in {<<2, 1>>, <<1, 2>>} THEN TYPE_O ELSE SPACE])

TwoTiesBoard ==
    Rect(13, 2, [p \in Coords(13, 2) |->
                   IF p[2] = 1 THEN SPACE
                   ELSE IF p[1] \in {0, 5, 10, 11} THEN TYPE_X
                   ELSE IF p[1] \in {1, 6, 12} THEN TYPE_O
                   ELSE IF p[1] \in {2, 7} THEN TYPE_Y ELSE SPACE])

TestBoards == {ClearWinnerBoard, MixedBlockBoard, TwoTiesBoard}

(* An input one byte longer than the maximum, and inputs of one row of n   *)
(* cells followed by m newlines (m - 1 empty rows).                        *)
OversizeBoard == [i \in 1..(MAX_BOARD_SIZE + 1) |-> SPACE]

LongBoard(n, m) == [i \in 1..(n + m) |-> IF i <= n THEN TYPE_X ELSE NEWLINE]

LargeBoards ==
    {OversizeBoard, LongBoard(LongRow, LongRows), LongBoard(SquareSide, SquareSide)}

Inputs == SmallBoards \cup TypedBoards \cup ColonyBoards \cup BlinkerBoards
              \cup TestBoards \cup LargeBoards

(***************************************************************************)
(* The state machine: a client holds a board and invokes the contract; it  *)
(* may feed the returned board to a further call (test_blinker_oscillator, *)
(* lines 241-249).                                                         *)
(***************************************************************************)
Init ==
    /\ board \in Inputs
    /\ origin = board
    /\ pc = "ready"
    /\ result = <<>>
    /\ passed = FALSE
    /\ width = 0
    /\ height = 0
    /\ prng_log = <<>>
    /\ dom_calls = <<>>
    /\ gen = 0

Call ==
    /\ pc = "ready"
    /\ \E r \in next_generation(board) :
          /\ pc' = r.status
          /\ result' = r.out
          /\ passed' = r.passed
          /\ width' = r.width
          /\ height' = r.height
          /\ prng_log' = r.log
          /\ dom_calls' = r.calls
    /\ gen' = gen + 1
    /\ UNCHANGED <<board, origin>>

Reapply ==
    /\ pc = "returned"
    /\ gen < MaxGen
    /\ board' = result
    /\ pc' = "ready"
    /\ result' = <<>>
    /\ passed' = FALSE
    /\ width' = 0
    /\ height' = 0
    /\ prng_log' = <<>>
    /\ dom_calls' = <<>>
    /\ UNCHANGED <<origin, gen>>

Next == Call \/ Reapply

Spec == Init /\ [][Next]_vars

(***************************************************************************)
(* Vocabulary of the properties, stated on the text of the board and on    *)
(* the grid the call reads, independently of the loops above.              *)
(***************************************************************************)
Called == pc # "ready"

Returned == pc = "returned"

(* The call went past the pass-through exits of lines 114 and 147. *)
Accepted ==
    Called /\ Len(board) >= 1 /\ Len(board) <= MAX_BOARD_SIZE /\ width > 0 /\ height > 0

Processed == Returned /\ ~passed

NewlinePositions(b) == {i \in 1..Len(b) : b[i] = NEWLINE}

(* Bytes before the first newline, or the whole length without a newline. *)
FirstRowLength(b) ==
    IF NewlinePositions(b) = {} THEN Len(b)
    ELSE (CHOOSE i \in NewlinePositions(b) : \A j \in NewlinePositions(b) : i <= j) - 1

(* Newline bytes, plus one if non-newline bytes follow the last newline. *)
RowCount(b) ==
    Cardinality(NewlinePositions(b))
        + (IF Len(b) > 0 /\ b[Len(b)] # NEWLINE THEN 1 ELSE 0)

(* All rows have the same length W > 0: the newlines are exactly the bytes *)
(* at the multiples of W + 1 (a newline after the last row is allowed).    *)
IsRectangular(b) ==
    LET W == FirstRowLength(b)
        H == RowCount(b)
    IN  /\ W > 0
        /\ H > 0
        /\ Len(b) \in {H * (W + 1) - 1, H * (W + 1)}
        /\ \A i \in 1..Len(b) : (b[i] = NEWLINE) <=> (i % (W + 1) = 0)

(* Cell (x, y) of a text whose rows are W bytes wide. *)
TextCell(b, W, x, y) == b[y * (W + 1) + x + 1]

Moore(x, y, W, H) ==
    {p \in ((x - 1)..(x + 1)) \X ((y - 1)..(y + 1)) :
        /\ p # <<x, y>>
        /\ p[1] >= 0 /\ p[1] < W
        /\ p[2] >= 0 /\ p[2] < H}

LiveInText(b, W, H, x, y) ==
    {p \in Moore(x, y, W, H) : TextCell(b, W, p[1], p[2]) # SPACE}

(* Cell (x, y) of the grid the call reads, and its live neighbours there. *)
Cell(x, y) == GridAt(BuildGrid(board), y * width + x)

LiveAround(x, y) ==
    {p \in Moore(x, y, width, height) : Cell(p[1], p[2]) # SPACE}

TypesAround(x, y) == {Cell(p[1], p[2]) : p \in LiveAround(x, y)}

Occurrences(x, y, t) == Cardinality({p \in LiveAround(x, y) : Cell(p[1], p[2]) = t})

(* The neighbour types whose occurrence count is maximal. *)
Dominant(x, y) ==
    {t \in TypesAround(x, y) :
        \A u \in TypesAround(x, y) : Occurrences(x, y, t) >= Occurrences(x, y, u)}

OutCell(x, y) == TextCell(result, width, x, y)

Cells == (0..(width - 1)) \X (0..(height - 1))

Survivor(x, y) == Cell(x, y) # SPACE /\ Cardinality(LiveAround(x, y)) \in {2, 3}

Born(x, y) == Cell(x, y) = SPACE /\ Cardinality(LiveAround(x, y)) = 3

Contested(x, y) == Born(x, y) /\ Cardinality(TypesAround(x, y)) = 3

DrawsAt(x, y) == {i \in 1..Len(prng_log) : prng_log[i].x = x /\ prng_log[i].y = y}

(***************************************************************************)
(* C1: on an accepted rectangular board the call returns a computed board  *)
(* in which cell (x, y) is live iff the input cell is live with 2 or 3     *)
(* live Moore neighbours or dead with exactly 3, the neighbours being the  *)
(* in-range cells of the input text.                                       *)
(***************************************************************************)
C1_LifeRule ==
    (Called /\ Len(board) <= MAX_BOARD_SIZE /\ IsRectangular(board)) =>
        LET W == FirstRowLength(board)
            H == RowCount(board)
        IN  /\ Processed
            /\ Len(result) = H * (W + 1) - 1
            /\ \A x \in 0..(W - 1), y \in 0..(H - 1) :
                  LET n == Cardinality(LiveInText(board, W, H, x, y))
                  IN  (TextCell(result, W, x, y) # SPACE) <=>
                          IF TextCell(board, W, x, y) # SPACE
                          THEN n \in {2, 3} ELSE n = 3

(* A board with a birth and a death by overcrowding in the same step. *)
C1_Witness ==
    /\ Processed /\ IsRectangular(board)
    /\ \E p \in Cells : Born(p[1], p[2]) /\ OutCell(p[1], p[2]) # SPACE
    /\ \E p \in Cells : /\ Cell(p[1], p[2]) # SPACE
                        /\ Cardinality(LiveAround(p[1], p[2])) >= 4
                        /\ OutCell(p[1], p[2]) = SPACE

(***************************************************************************)
(* C2: a cell live in the input and live in the output keeps its byte, and *)
(* no draw of the random source is made for it.                            *)
(***************************************************************************)
C2_SurvivorKeepsType ==
    Processed =>
        \A p \in Cells :
            (Cell(p[1], p[2]) # SPACE /\ OutCell(p[1], p[2]) # SPACE) =>
                /\ OutCell(p[1], p[2]) = Cell(p[1], p[2])
                /\ DrawsAt(p[1], p[2]) = {}

(* A survivor whose live neighbours are all of other types. *)
C2_Witness ==
    /\ Processed
    /\ \E p \in Cells :
          /\ Survivor(p[1], p[2])
          /\ Cell(p[1], p[2]) \notin TypesAround(p[1], p[2])
          /\ Cardinality(TypesAround(p[1], p[2])) >= 2
          /\ OutCell(p[1], p[2]) = Cell(p[1], p[2])

(***************************************************************************)
(* C3: a newly born cell gets one of the neighbour types of maximal        *)
(* occurrence: the majority type when there is one, and one of the k tied  *)
(* types, the one at the drawn index in [0, k), when k > 1 types tie.      *)
(***************************************************************************)
C3_BirthInheritsDominant ==
    Processed =>
        /\ \A p \in Cells : Born(p[1], p[2]) => OutCell(p[1], p[2]) \in Dominant(p[1], p[2])
        /\ \A i \in 1..Len(prng_log) :
              /\ prng_log[i].range = Cardinality(Dominant(prng_log[i].x, prng_log[i].y))
              /\ prng_log[i].index \in 0..(prng_log[i].range - 1)

(* A three-way tie resolved by the last index, beside a clear majority. *)
C3_Witness ==
    /\ Processed
    /\ \E i \in 1..Len(prng_log) :
          /\ prng_log[i].range = 3
          /\ prng_log[i].index = 2
          /\ OutCell(prng_log[i].x, prng_log[i].y) \in Dominant(prng_log[i].x, prng_log[i].y)

C3_WitnessMajority ==
    /\ Processed
    /\ \E p \in Cells :
          /\ Born(p[1], p[2])
          /\ Cardinality(TypesAround(p[1], p[2])) = 2
          /\ {OutCell(p[1], p[2])} = Dominant(p[1], p[2])

(***************************************************************************)
(* C4: an empty input, an input longer than MAX_BOARD_SIZE and an input    *)
(* whose parsed width or height is 0 are returned byte for byte, without   *)
(* a draw of the random source.                                            *)
(***************************************************************************)
C4_PassThrough ==
    (Called /\ (Len(board) = 0 \/ Len(board) > MAX_BOARD_SIZE \/ width = 0 \/ height = 0)) =>
        /\ Returned
        /\ passed
        /\ result = board
        /\ prng_log = <<>>
        /\ dom_calls = <<>>

(* An input made only of newline bytes. *)
C4_Witness ==
    /\ Returned
    /\ Len(board) > 0
    /\ \A i \in 1..Len(board) : board[i] = NEWLINE
    /\ result = board

(***************************************************************************)
(* C5: for every input the call completes and returns a board; no index    *)
(* into a fixed-size buffer is out of bounds.                              *)
(***************************************************************************)
C5_NeverFails == pc # "panicked"

(***************************************************************************)
(* C6: for every processed board the output is height rows of width        *)
(* non-newline bytes joined by single newlines (length width * height +    *)
(* height - 1), it parses to the same width and height, and its length is  *)
(* at most MAX_BOARD_SIZE.                                                 *)
(***************************************************************************)
OutputShape ==
    /\ Len(result) = width * height + height - 1
    /\ \A i \in 1..Len(result) : (result[i] = NEWLINE) <=> (i % (width + 1) = 0)
    /\ ParseDimensions(result) = [width |-> width, height |-> height]
    /\ Len(result) <= MAX_BOARD_SIZE

C6_OutputShape == Accepted => (Returned /\ OutputShape)

(* Every call that does return a computed board returns one of that shape. *)
ShapeWhenReturned == Processed => OutputShape

(***************************************************************************)
(* C7: the parsed width is the number of bytes before the first newline    *)
(* (the whole length without one), the height the number of newlines plus  *)
(* one if bytes follow the last newline; an input whose first byte is a    *)
(* newline has width 0 and is returned unchanged.                          *)
(***************************************************************************)
C7_ParsedDimensions ==
    (Called /\ Len(board) >= 1 /\ Len(board) <= MAX_BOARD_SIZE) =>
        /\ width = FirstRowLength(board)
        /\ height = RowCount(board)
        /\ (board[1] = NEWLINE => (width = 0 /\ Returned /\ result = board))

C9_GridFilled ==
    Accepted =>
        /\ Len(BuildGrid(board)) = width * height
        /\ width * height <= MAX_BOARD_SIZE

(***************************************************************************)
(* C10: the random source is consulted for a cell exactly when the cell is *)
(* dead with exactly three live neighbours of pairwise distinct types,     *)
(* then once with range [0, 3); a board without such a cell has a single   *)
(* possible output; get_dominant_type is never called with an empty list   *)
(* and no born cell gets a byte that is not a neighbour's.                 *)
(***************************************************************************)
C10_DrawsOnlyOnTies ==
    Processed =>
        /\ \A p \in Cells :
              Cardinality(DrawsAt(p[1], p[2])) = IF Contested(p[1], p[2]) THEN 1 ELSE 0
        /\ \A i \in 1..Len(prng_log) : prng_log[i].range = 3
        /\ (\A p \in Cells : ~Contested(p[1], p[2])) =>
              \A r \in next_generation(board) : r.out = result
        /\ \A i \in 1..Len(dom_calls) : dom_calls[i].type_count = 3
        /\ \A p \in Cells : Born(p[1], p[2]) => OutCell(p[1], p[2]) \in TypesAround(p[1], p[2])

(* Two contested births and an uncontested one in one call: two draws. *)
C10_Witness ==
    /\ Processed
    /\ Len(prng_log) = 2
    /\ \E p \in Cells : Born(p[1], p[2]) /\ ~Contested(p[1], p[2])

====
